---- MODULE Spec2Model ----
(***************************************************************************)
(* ARNS migration tool: the library src/lib/arns-utils.ts (connectWallet,  *)
(* getArnsNames, migrateToArns, isValidArweaveId) and the page component   *)
(* ArnsPage that drives it.                                                *)
(*                                                                         *)
(* Text that the code parses or builds (URLs, names, undernames) is a      *)
(* sequence of one-character strings, so that the regular expressions and  *)
(* the template literals are computed character by character.  Opaque      *)
(* identifiers that the code only compares or passes on (process ids,      *)
(* wallet addresses, transaction ids, messages) are TLA+ strings.          *)
(*                                                                         *)
(* Every async function is a call frame whose pc is the await it is        *)
(* suspended at.  One action is one task of the event loop: a click or a   *)
(* settled external promise, together with all the code that runs before   *)
(* the next await that has to wait for the network or the wallet.  A       *)
(* promise of the library that settles resumes its caller in the same      *)
(* task (the microtasks run before any other event is handled), and the    *)
(* page is rendered from the state before the next click: a button's       *)
(* disabled attribute and a handler's closure are read from the state      *)
(* variables themselves.                                                   *)
(***************************************************************************)
EXTENDS Integers, Sequences, FiniteSets, TLC

\* ------------------------------------------------------------------ bounds
\* Number of call frames available to migrateToArns invocations.
MaxCalls == 2
\* Largest number of entries in a registry snapshot given to a direct call.
MaxRecords == 3
\* Largest number of entries in a registry snapshot given to the page.
MaxListed == 2

\* ------------------------------------------------------- program constants
IdLen == 43
TtlSeconds == 3600

\* -------------------------------------------------------------------- text
Lower == {"a","b","c","d","e","f","g","h","i","j","k","l","m",
          "n","o","p","q","r","s","t","u","v","w","x","y","z"}
Upper == {"A","B","C","D","E","F","G","H","I","J","K","L","M",
          "N","O","P","Q","R","S","T","U","V","W","X","Y","Z"}
Digit == {"0","1","2","3","4","5","6","7","8","9"}
\* The character class [a-zA-Z0-9_-] of every pattern in the code.
IdChar == Lower \cup Upper \cup Digit \cup {"_", "-"}

Rep(c, n) == [k \in 1..n |-> c]
AllIdChars(s, from, to) == \A k \in from..to : s[k] \in IdChar
\* s holds the literal lit at position at.
HasAt(s, lit, at) ==
    /\ at >= 1
    /\ at + Len(lit) - 1 <= Len(s)
    /\ \A k \in 1..Len(lit) : s[at + k - 1] = lit[k]

Https == <<"h","t","t","p","s",":","/","/">>
Http == <<"h","t","t","p",":","/","/">>
DotArweaveNetSlash == <<".","a","r","w","e","a","v","e",".","n","e","t","/">>
DotArIo == <<".","a","r",".","i","o">>
At == <<"@">>
Www == <<"w","w","w">>
Bar == <<"b","a","r">>
Foo == <<"f","o","o">>
Baz == <<"b","a","z">>
Sub == <<"s","u","b">>
Abc123 == <<"a","b","c","1","2","3">>
ExampleArns == <<"e","x","a","m","p","l","e","-","a","r","n","s">>
TestDomain == <<"t","e","s","t","-","d","o","m","a","i","n">>
NoMatch == <<"null">>

\* isValidArweaveId: /^[a-zA-Z0-9_-]{43}$/.test(id)
isValidArweaveId(id) == Len(id) = IdLen /\ AllIdChars(id, 1, Len(id))

\* url.match(/\/([a-zA-Z0-9_-]+)$/): the capture group of the leftmost match,
\* or NoMatch.  A match starts at a "/" and runs to the end of the string over
\* a non-empty run of class characters.
TrailingSegmentStarts(url) ==
    {k \in 1..(Len(url) - 1) : url[k] = "/" /\ AllIdChars(url, k + 1, Len(url))}
TxIdMatch(url) ==
    LET starts == TrailingSegmentStarts(url)
    IN  IF starts = {} THEN NoMatch
        ELSE LET first == CHOOSE k \in starts : \A m \in starts : k <= m
             IN  SubSeq(url, first + 1, Len(url))

\* End of the longest run of class characters of s that starts at from
\* (from - 1 when s[from] is not a class character).
RECURSIVE RunEnd(_, _)
RunEnd(s, from) ==
    IF from <= Len(s) /\ s[from] \in IdChar THEN RunEnd(s, from + 1) ELSE from - 1

\* An unanchored variant of the page's pattern: the same expression without
\* ^ and $, which accepts any string that contains a match.
arweaveRegexUnanchored(url) ==
    \E at \in 1..Len(url) :
        /\ HasAt(url, Https, at)
        /\ LET hostEnd == RunEnd(url, at + Len(Https))
           IN  /\ hostEnd >= at + Len(Https)
               /\ HasAt(url, DotArweaveNetSlash, hostEnd + 1)
               /\ RunEnd(url, hostEnd + 1 + Len(DotArweaveNetSlash))
                      >= hostEnd + 1 + Len(DotArweaveNetSlash)

\* arweaveRegex.test(url) for
\* /^https:\/\/[a-zA-Z0-9_-]+\.arweave\.net\/[a-zA-Z0-9_-]+$/.
\* The class excludes ".", so the host run is matched greedily without loss.
arweaveRegex(url) ==
    /\ HasAt(url, Https, 1)
    /\ LET hostEnd == RunEnd(url, Len(Https) + 1)
           pathStart == hostEnd + 1 + Len(DotArweaveNetSlash)
       IN  /\ hostEnd >= Len(Https) + 1
           /\ HasAt(url, DotArweaveNetSlash, hostEnd + 1)
           /\ pathStart <= Len(url)
           /\ RunEnd(url, pathStart) = Len(url)

\* A variant of the URL template that tests only for "@".
ArnsUrlAtOnly(undername, arnsName) ==
    IF undername = At
    THEN Https \o arnsName \o DotArIo
    ELSE Https \o undername \o <<"_">> \o arnsName \o DotArIo

\* undername === '@' || !undername ? `https://${arnsName}.ar.io`
\*                                 : `https://${undername}_${arnsName}.ar.io`
ArnsUrl(undername, arnsName) ==
    IF undername = At \/ undername = <<>>
    THEN Https \o arnsName \o DotArIo
    ELSE Https \o undername \o <<"_">> \o arnsName \o DotArIo

\* The development fallback's URL: undername === '@' ? ... : ...
MockArnsUrl(undername) ==
    IF undername = At
    THEN Https \o ExampleArns \o DotArIo
    ELSE Https \o undername \o <<"_">> \o ExampleArns \o DotArIo

\* record.undername || '@' (an absent undername is the empty text)
UndernameOrAt(undername) == IF undername = <<>> THEN At ELSE undername

\* result.id || 'pending' (an id that was not reported is "")
IdOrPending(id) == IF id = "" THEN "pending" ELSE id

\* ------------------------------------------------------------ input domains
Addresses == {"X", "Y"}
ProcessIds == {"C1", "C2"}
Names == {Bar, Foo, Baz}
Throws == "throws"
\* What ant.getInfo() reports as Owner, or that it throws.
OwnerOutcomes == Addresses \cup {Throws}
\* What arweaveWallet.getActiveAddress() reports, or that it throws.
WalletOutcomes == {"X", Throws}
\* What ant.getInfo() reports or does while the page is used.
PageOwnerOutcomes == {"X", Throws}

ValidUrl == Https \o Sub \o DotArweaveNetSlash \o Rep("a", IdLen)
ShortIdUrl == Https \o Foo \o DotArweaveNetSlash \o Abc123
WrongSchemeUrl == Http \o Foo \o DotArweaveNetSlash \o Abc123
EmptySegmentUrl == Https \o Foo \o DotArweaveNetSlash
\* A string that contains a match of the page's pattern without being one.
PartialMatchUrl == <<"x">> \o Https \o Foo \o DotArweaveNetSlash \o Abc123
UrlInputs == {ValidUrl, ShortIdUrl, WrongSchemeUrl, EmptySegmentUrl, PartialMatchUrl}

\* One registry record: io.getArNSRecords() maps name to {processId, undername?}.
\* bar and baz have no undername, foo has the undername www; each may belong
\* to either contract.
RegistryEntries ==
    {[name |-> n, processId |-> p, undername |-> IF n = Foo THEN Www ELSE <<>>] :
        n \in Names, p \in ProcessIds}
\* The records the registry holds while the page is used.
PageRegistryEntries ==
    {e \in RegistryEntries : e.name \in {Bar, Foo} /\ (e.name = Bar => e.processId = "C1")}
\* Object.entries(arnsRecords): at most n of the entries in iteration order,
\* names distinct.
RegistriesOf(entries, n) ==
    UNION { { r \in [1..k -> entries] :
                \A a, b \in 1..k : a # b => r[a].name # r[b].name } :
            k \in 0..n }
\* What io.getArNSRecords() resolves to, or that it rejects.
FetchOutcomesOf(registries) ==
    {[ok |-> TRUE, records |-> r] : r \in registries}
        \cup {[ok |-> FALSE, records |-> <<>>]}
FetchOutcomes == FetchOutcomesOf(RegistriesOf(RegistryEntries, MaxRecords))
PageFetchOutcomes == FetchOutcomesOf(RegistriesOf(PageRegistryEntries, MaxListed))
\* What ant.setUndernameRecord() resolves to (id "" when none is reported),
\* or that it rejects.
UpdateOutcomes ==
    {[ok |-> TRUE, id |-> "T1"], [ok |-> TRUE, id |-> ""], [ok |-> FALSE, id |-> ""]}

\* What ant.setUndernameRecord() does while the page is used.
PageUpdateOutcomes == {o \in UpdateOutcomes : o.ok => o.id # ""}

Slots == 1..MaxCalls

\* ------------------------------------------------------------------- state
VARIABLES
    nodeEnv,          \* process.env.NODE_ENV
    walletPresent,    \* whether window.arweaveWallet is defined
    conn,             \* the connectWallet call frame
    look,             \* the getArnsNames call frame
    mig,              \* the migrateToArns call frames
    walletConnected, walletAddress, isLoading, arnsNames, selectedArns,
    arweaveUrl, migrationResult, error, isLoadingArns, isMigrating,
    selectedArnsData  \* handleMigration's selectedArnsData, per pending call

envVars == <<nodeEnv, walletPresent>>
libVars == <<conn, look, mig>>
pageVars == <<walletConnected, walletAddress, isLoading, arnsNames, selectedArns,
              arweaveUrl, migrationResult, error, isLoadingArns, isMigrating,
              selectedArnsData>>
vars == <<envVars, libVars, pageVars>>

Null == "null"
Settled == {"Done", "Failed"}

\* -------------------------------------------------------------- connectWallet
IdleConn == [pc |-> "Idle", caught |-> "", address |-> "", thrown |-> ""]

WalletNotFoundInstall == "ArConnect wallet not found. Please install ArConnect extension."
ConnectRejected == "User cancelled the AuthRequest"
WalletUndefined == "Cannot read properties of undefined"
ConnectFailed ==
    "Failed to connect wallet. Please make sure ArConnect is installed and try again."

\* catch (error) { throw new Error('Failed to connect wallet. ...') }
ConnectCatch(f, msg) ==
    [f EXCEPT !.pc = "Failed", !.caught = msg, !.thrown = ConnectFailed]

\* connectWallet() up to its first await
ConnectWalletCall(present) ==
    IF present
    THEN [IdleConn EXCEPT !.pc = "Connecting"]
    ELSE ConnectCatch(IdleConn, WalletNotFoundInstall)

\* arweaveWallet.connect([...]) settles; then getActiveAddress() is called on
\* window.arweaveWallet as it is at that moment.
ConnectSettled(f, granted, present) ==
    IF ~granted THEN ConnectCatch(f, ConnectRejected)
    ELSE IF ~present THEN ConnectCatch(f, WalletUndefined)
    ELSE [f EXCEPT !.pc = "GettingAddress"]

\* arweaveWallet.getActiveAddress() settles
AddressSettled(f, outcome) ==
    IF outcome = Throws THEN ConnectCatch(f, "getActiveAddress failed")
    ELSE [f EXCEPT !.pc = "Done", !.address = outcome]

\* --------------------------------------------------------------- getArnsNames
IdleLook ==
    [pc |-> "Idle", walletAddress |-> "", fetched |-> FALSE, arnsRecords |-> <<>>,
     owners |-> <<>>, userArnsNames |-> <<>>, thrown |-> ""]

FetchNamesFailed == "Failed to fetch ARNS names. Please try again."
MockArnsNames ==
    << [name |-> ExampleArns, processId |-> "mock-process-id-1234567890abcdef",
        undername |-> At],
       [name |-> TestDomain, processId |-> "mock-process-id-abcdef1234567890",
        undername |-> Www] >>

GetArnsNamesCall(address) ==
    [IdleLook EXCEPT !.pc = "Fetching", !.walletAddress = address]

\* The outer catch: mock data in development, otherwise the error.
LookupCatch(f) ==
    IF nodeEnv = "development"
    THEN [f EXCEPT !.pc = "Done", !.userArnsNames = MockArnsNames]
    ELSE [f EXCEPT !.pc = "Failed", !.thrown = FetchNamesFailed]

\* The loop moves on: the next entry's getInfo() is awaited, or the list is
\* returned after the last entry.
NextEntry(f) ==
    IF Len(f.owners) = Len(f.arnsRecords)
    THEN [f EXCEPT !.pc = "Done"] ELSE [f EXCEPT !.pc = "Checking"]

\* io.getArNSRecords() settles
RecordsFetched(f, outcome) ==
    IF ~outcome.ok THEN LookupCatch(f)
    ELSE NextEntry([f EXCEPT !.fetched = TRUE, !.arnsRecords = outcome.records])

\* antInfo.Owner === walletAddress
OwnerMatches(owner, address) == owner = address

\* A variant of the inner catch that gives up the whole lookup.
OwnershipFailedAborts(f) == LookupCatch([f EXCEPT !.owners = Append(@, Throws)])
\* The inner catch: the failure is logged and the loop continues.
OwnershipFailed(f) == NextEntry([f EXCEPT !.owners = Append(@, Throws)])

\* ant.getInfo() resolved for the entry being checked: lines 62-68
OwnershipReported(f, owner) ==
    LET rec == f.arnsRecords[Len(f.owners) + 1]
        kept == IF OwnerMatches(owner, f.walletAddress)
                THEN Append(f.userArnsNames,
                            [name |-> rec.name, processId |-> rec.processId,
                             undername |-> UndernameOrAt(rec.undername)])
                ELSE f.userArnsNames
    IN  NextEntry([f EXCEPT !.owners = Append(@, owner), !.userArnsNames = kept])

\* ant.getInfo() settles for the entry being checked
InfoSettled(f, outcome) ==
    IF outcome = Throws THEN OwnershipFailed(f) ELSE OwnershipReported(f, outcome)

\* -------------------------------------------------------------- migrateToArns
\* pc: "Idle", "Validating" (within the call only), "Submitting" (the update
\* is awaited), "Resolving" (the registry is awaited), "Done" (the promise is
\* fulfilled with value), "Failed" (it is rejected with thrown).
\* stages is the history of pc; updates is the list of setUndernameRecord
\* calls the invocation has issued; fetches counts its getArNSRecords calls.
NoValue == [arnsUrl |-> <<>>, transactionId |-> ""]
IdleMig ==
    [pc |-> "Idle", stages |-> <<>>, processId |-> "", undername |-> <<>>,
     arweaveUrl |-> <<>>, transactionId |-> <<>>, updates |-> <<>>,
     resultId |-> "", fetches |-> 0, arnsRecords |-> <<>>, arnsName |-> <<>>,
     caught |-> "", value |-> NoValue, thrown |-> ""]

InvalidUrlMsg == "Invalid Arweave URL format"
WalletNotFound == "ArConnect wallet not found"
UpdateRejected == "setUndernameRecord rejected"
RegistryRejected == "getArNSRecords rejected"
NameNotFound == "Could not find ARNS name for the given process ID"

Enter(f, stage) == [f EXCEPT !.pc = stage, !.stages = Append(@, stage)]

MigrateToArnsCall(processId, undername, url) ==
    Enter([IdleMig EXCEPT !.processId = processId, !.undername = undername,
                          !.arweaveUrl = url], "Validating")

\* The catch block: a mock result in development, otherwise one error.
MigrateCatch(f, msg) ==
    IF nodeEnv = "development"
    THEN Enter([f EXCEPT !.caught = msg,
                         !.value = [arnsUrl |-> MockArnsUrl(f.undername),
                                    transactionId |-> "mock-migration-tx-id"]],
               "Done")
    ELSE Enter([f EXCEPT !.caught = msg, !.thrown = "Migration failed: " \o msg],
               "Failed")

\* Lines 109-114: the transaction id is the URL's trailing segment.
MigrateValidate(f) ==
    LET txIdMatch == TxIdMatch(f.arweaveUrl)
    IN  IF txIdMatch = NoMatch THEN MigrateCatch(f, InvalidUrlMsg)
        ELSE Enter([f EXCEPT !.transactionId = txIdMatch], "Submitting")

\* Lines 120-141: the wallet check, then setUndernameRecord is called.
MigrateSubmit(f, present) ==
    IF ~present THEN MigrateCatch(f, WalletNotFound)
    ELSE [f EXCEPT !.updates = Append(@, [undername |-> f.undername,
                                          transactionId |-> f.transactionId,
                                          ttlSeconds |-> TtlSeconds])]

\* migrateToArns(processId, undername, arweaveUrl) up to its first await.
MigrateToArns(processId, undername, url, present) ==
    LET f == MigrateValidate(MigrateToArnsCall(processId, undername, url))
    IN  IF f.pc = "Submitting" THEN MigrateSubmit(f, present) ELSE f

\* A variant in which a rejected update is submitted again.
MigrateUpdatedRetries(f, outcome) ==
    IF ~outcome.ok /\ Len(f.updates) < 2 THEN MigrateSubmit(f, TRUE)
    ELSE IF ~outcome.ok THEN MigrateCatch(f, UpdateRejected)
    ELSE [Enter(f, "Resolving") EXCEPT !.resultId = outcome.id, !.fetches = @ + 1]
\* setUndernameRecord settles; on success getArNSRecords is called.
MigrateUpdated(f, outcome) ==
    IF ~outcome.ok THEN MigrateCatch(f, UpdateRejected)
    ELSE [Enter(f, "Resolving") EXCEPT !.resultId = outcome.id, !.fetches = @ + 1]

\* Lines 147-153: the name of the first entry with the process id, else ''.
FindArnsName(records, processId) ==
    LET hits == {k \in 1..Len(records) : records[k].processId = processId}
    IN  IF hits = {} THEN <<>>
        ELSE records[CHOOSE k \in hits : \A m \in hits : k <= m].name

\* getArNSRecords settles; the name is looked up and the result is built.
MigrateResolved(f, outcome) ==
    IF ~outcome.ok THEN MigrateCatch(f, RegistryRejected)
    ELSE LET arnsName == FindArnsName(outcome.records, f.processId)
             g == [f EXCEPT !.arnsRecords = outcome.records, !.arnsName = arnsName]
         IN  IF arnsName = <<>> THEN MigrateCatch(g, NameNotFound)
             ELSE Enter([g EXCEPT !.value =
                            [arnsUrl |-> ArnsUrl(f.undername, arnsName),
                             transactionId |-> IdOrPending(f.resultId)]],
                        "Done")

\* selectedArnsData of a handleMigration call that is not waiting.
NoData == [name |-> <<>>, processId |-> "", undername |-> <<>>]

\* ----------------------------------------------------------------- initial
Init ==
    /\ nodeEnv \in {"production", "development"}
    /\ walletPresent \in BOOLEAN
    /\ conn = IdleConn
    /\ look = IdleLook
    /\ mig = [s \in Slots |-> IdleMig]
    /\ walletConnected = FALSE
    /\ walletAddress = ""
    /\ isLoading = FALSE
    /\ arnsNames = <<>>
    /\ selectedArns = <<>>
    /\ arweaveUrl = <<>>
    /\ migrationResult = <<>>
    /\ error = Null
    /\ isLoadingArns = FALSE
    /\ isMigrating = FALSE
    /\ selectedArnsData = [s \in Slots |-> NoData]

\* ------------------------------------------------------------- environment
\* window.arweaveWallet is defined or deleted between two direct calls or
\* during one.
WalletChanges ==
    /\ walletPresent' = ~walletPresent
    /\ UNCHANGED <<nodeEnv, libVars, pageVars>>

\* The wallet extension injects window.arweaveWallet into the loaded page.
WalletInjected ==
    /\ ~walletPresent
    /\ walletPresent' = TRUE
    /\ UNCHANGED <<nodeEnv, libVars, pageVars>>

\* The lowest free frame.
FreeSlot ==
    CHOOSE s \in Slots :
        mig[s].pc = "Idle" /\ \A r \in Slots : mig[r].pc = "Idle" => s <= r

\* ------------------------------------- the exported functions, called directly
AllIdle ==
    /\ conn.pc = "Idle"
    /\ look.pc = "Idle"
    /\ \A s \in Slots : mig[s].pc = "Idle"

CallConnectWallet ==
    /\ AllIdle
    /\ conn' = ConnectWalletCall(walletPresent)
    /\ UNCHANGED <<envVars, look, mig, pageVars>>

ConnectSettles ==
    /\ conn.pc = "Connecting"
    /\ \E granted \in BOOLEAN : conn' = ConnectSettled(conn, granted, walletPresent)
    /\ UNCHANGED <<envVars, look, mig, pageVars>>

AddressSettles ==
    /\ conn.pc = "GettingAddress"
    /\ \E outcome \in WalletOutcomes : conn' = AddressSettled(conn, outcome)
    /\ UNCHANGED <<envVars, look, mig, pageVars>>

CallGetArnsNames ==
    /\ AllIdle
    /\ \E address \in Addresses : look' = GetArnsNamesCall(address)
    /\ UNCHANGED <<envVars, conn, mig, pageVars>>

RecordsSettle ==
    /\ look.pc = "Fetching"
    /\ \E outcome \in FetchOutcomes : look' = RecordsFetched(look, outcome)
    /\ UNCHANGED <<envVars, conn, mig, pageVars>>

InfoSettles ==
    /\ look.pc = "Checking"
    /\ \E outcome \in OwnerOutcomes : look' = InfoSettled(look, outcome)
    /\ UNCHANGED <<envVars, conn, mig, pageVars>>

CallMigrateToArns ==
    /\ AllIdle
    /\ \E processId \in ProcessIds, undername \in {At, <<>>, Www}, url \in UrlInputs :
          mig' = [mig EXCEPT ![FreeSlot] =
                     MigrateToArns(processId, undername, url, walletPresent)]
    /\ UNCHANGED <<envVars, conn, look, pageVars>>

UpdateSettles(s) ==
    /\ mig[s].pc = "Submitting"
    /\ \E outcome \in UpdateOutcomes :
          mig' = [mig EXCEPT ![s] = MigrateUpdated(mig[s], outcome)]
    /\ UNCHANGED <<envVars, conn, look, pageVars>>

RegistrySettles(s) ==
    /\ mig[s].pc = "Resolving"
    /\ \E outcome \in FetchOutcomes :
          mig' = [mig EXCEPT ![s] = MigrateResolved(mig[s], outcome)]
    /\ UNCHANGED <<envVars, conn, look, pageVars>>

MigrateSettles == \E s \in Slots : UpdateSettles(s) \/ RegistrySettles(s)

\* The caller takes the settled promise's outcome; the frame is gone.
CallReturns ==
    /\ \/ conn.pc \in Settled
       \/ look.pc \in Settled
       \/ \E s \in Slots : mig[s].pc \in Settled
    /\ conn' = IF conn.pc \in Settled THEN IdleConn ELSE conn
    /\ look' = IF look.pc \in Settled THEN IdleLook ELSE look
    /\ mig' = [s \in Slots |-> IF mig[s].pc \in Settled THEN IdleMig ELSE mig[s]]
    /\ UNCHANGED <<envVars, pageVars>>

LibNext ==
    \/ WalletChanges
    \/ CallConnectWallet
    \/ ConnectSettles
    \/ AddressSettles
    \/ CallGetArnsNames
    \/ RecordsSettle
    \/ InfoSettles
    \/ CallMigrateToArns
    \/ MigrateSettles
    \/ CallReturns

LibSpec == Init /\ [][LibNext]_vars

\* The external calls of a migration return.
FairLibSpec == LibSpec /\ WF_vars(MigrateSettles)

\* ---------------------------------------------------------------- ArnsPage
NoNamesFound == "No ARNS names found for this wallet address"
SelectAndEnter == "Please select an ARNS name and enter an Arweave URL"
EnterValidUrl ==
    "Please enter a valid arweave.net URL (e.g., https://example.arweave.net/txId)"
SelectedNotFound == "Selected ARNS name not found"

\* The migration form is rendered when arnsNames.length > 0.
FormShown == Len(arnsNames) > 0

\* A variant of the button's disabled attribute that ignores isMigrating.
MigrateDisabledNoFlag == selectedArns = <<>> \/ arweaveUrl = <<>>
\* disabled={isMigrating || !selectedArns || !arweaveUrl}
MigrateDisabled == isMigrating \/ selectedArns = <<>> \/ arweaveUrl = <<>>

\* arnsNames.find(arns => arns.name === selectedArns): its index, 0 if none.
FindSelected ==
    LET hits == {k \in 1..Len(arnsNames) : arnsNames[k].name = selectedArns}
    IN  IF hits = {} THEN 0 ELSE CHOOSE k \in hits : \A m \in hits : k <= m

\* handleConnectWallet from `await connectWallet()` on, f being the call's
\* frame: it waits while f is pending and runs try / catch / finally once f
\* has settled.
ConnectWalletAwaited(f) ==
    /\ conn' = IF f.pc \in Settled THEN IdleConn ELSE f
    /\ isLoading' = (f.pc \notin Settled)
    /\ walletAddress' = IF f.pc = "Done" THEN f.address ELSE walletAddress
    /\ walletConnected' = IF f.pc = "Done" THEN TRUE ELSE walletConnected

\* Click on "Connect Wallet" (rendered while !walletConnected, disabled while
\* isLoading).
HandleConnectWallet ==
    /\ ~walletConnected /\ ~isLoading
    /\ LET f == ConnectWalletCall(walletPresent)
       IN  /\ ConnectWalletAwaited(f)
           /\ error' = IF f.pc = "Failed" THEN f.thrown ELSE Null
    /\ UNCHANGED <<envVars, look, mig, arnsNames, selectedArns, arweaveUrl,
                   migrationResult, isLoadingArns, isMigrating,
                   selectedArnsData>>

\* The wallet answers the connect call of the page's connectWallet.
PageConnectSettles ==
    /\ conn.pc = "Connecting"
    /\ \E granted \in BOOLEAN :
          LET f == ConnectSettled(conn, granted, walletPresent)
          IN  /\ ConnectWalletAwaited(f)
              /\ error' = IF f.pc = "Failed" THEN f.thrown ELSE error
    /\ UNCHANGED <<envVars, look, mig, arnsNames, selectedArns, arweaveUrl,
                   migrationResult, isLoadingArns, isMigrating,
                   selectedArnsData>>

\* The wallet answers the getActiveAddress call of the page's connectWallet.
PageAddressSettles ==
    /\ conn.pc = "GettingAddress"
    /\ \E outcome \in WalletOutcomes :
          LET f == AddressSettled(conn, outcome)
          IN  /\ ConnectWalletAwaited(f)
              /\ error' = IF f.pc = "Failed" THEN f.thrown ELSE error
    /\ UNCHANGED <<envVars, look, mig, arnsNames, selectedArns, arweaveUrl,
                   migrationResult, isLoadingArns, isMigrating,
                   selectedArnsData>>

\* handleFetchArnsNames from `await getArnsNames(walletAddress)` on; err is
\* the error state at that point.
FetchArnsNamesAwaited(f, err) ==
    /\ look' = IF f.pc \in Settled THEN IdleLook ELSE f
    /\ isLoadingArns' = (f.pc \notin Settled)
    /\ arnsNames' = IF f.pc = "Done" THEN f.userArnsNames ELSE arnsNames
    /\ error' = IF f.pc = "Failed" THEN f.thrown
                ELSE IF f.pc = "Done" /\ Len(f.userArnsNames) = 0 THEN NoNamesFound
                ELSE err

\* Click on "Fetch My ARNS Names" (rendered while walletConnected, disabled
\* while isLoadingArns).
HandleFetchArnsNames ==
    /\ walletConnected /\ ~isLoadingArns
    /\ walletAddress # ""
    /\ FetchArnsNamesAwaited(GetArnsNamesCall(walletAddress), Null)
    /\ UNCHANGED <<envVars, conn, mig, walletConnected, walletAddress, isLoading,
                   selectedArns, arweaveUrl, migrationResult, isMigrating,
                   selectedArnsData>>

\* The registry answers the page's getArnsNames call.
PageRecordsSettle ==
    /\ look.pc = "Fetching"
    /\ \E outcome \in PageFetchOutcomes :
          FetchArnsNamesAwaited(RecordsFetched(look, outcome), error)
    /\ UNCHANGED <<envVars, conn, mig, walletConnected, walletAddress, isLoading,
                   selectedArns, arweaveUrl, migrationResult, isMigrating,
                   selectedArnsData>>

\* A contract answers the ownership query of the page's getArnsNames call.
PageInfoSettles ==
    /\ look.pc = "Checking"
    /\ \E outcome \in PageOwnerOutcomes :
          FetchArnsNamesAwaited(InfoSettled(look, outcome), error)
    /\ UNCHANGED <<envVars, conn, mig, walletConnected, walletAddress, isLoading,
                   selectedArns, arweaveUrl, migrationResult, isMigrating,
                   selectedArnsData>>

\* The Select lists arnsNames; picking an item calls setSelectedArns.
SelectArns ==
    /\ FormShown
    /\ \E k \in 1..Len(arnsNames) : selectedArns' = arnsNames[k].name
    /\ UNCHANGED <<envVars, libVars, walletConnected, walletAddress, isLoading,
                   arnsNames, arweaveUrl, migrationResult, error, isLoadingArns,
                   isMigrating,
                   selectedArnsData>>

\* Typing into the URL input calls setArweaveUrl.
SetArweaveUrl ==
    /\ FormShown
    /\ \E url \in UrlInputs : arweaveUrl' = url
    /\ UNCHANGED <<envVars, libVars, walletConnected, walletAddress, isLoading,
                   arnsNames, selectedArns, migrationResult, error, isLoadingArns,
                   isMigrating,
                   selectedArnsData>>

\* handleMigration from `await migrateToArns(...)` on, f being the call's
\* frame in slot s; err and res are the error and migrationResult states at
\* that point, data the list entry found for the selected name (line 101).
MigrationAwaited(s, f, err, res, data) ==
    /\ mig' = [mig EXCEPT ![s] = IF f.pc \in Settled THEN IdleMig ELSE f]
    /\ selectedArnsData' =
          [selectedArnsData EXCEPT ![s] = IF f.pc \in Settled THEN NoData ELSE data]
    /\ isMigrating' = (f.pc \notin Settled)
    /\ migrationResult' = IF f.pc = "Done" THEN f.value.arnsUrl ELSE res
    /\ error' = IF f.pc = "Failed" THEN f.thrown ELSE err

\* Click on "Migrate to ARNS" (rendered with the form).
HandleMigration ==
    /\ FormShown /\ ~MigrateDisabled
    /\ \E s \in Slots : mig[s].pc = "Idle"
    /\ IF selectedArns = <<>> \/ arweaveUrl = <<>>
       THEN /\ error' = SelectAndEnter
            /\ UNCHANGED <<mig, isMigrating, migrationResult, selectedArnsData>>
       ELSE IF ~arweaveRegex(arweaveUrl)
       THEN /\ error' = EnterValidUrl
            /\ UNCHANGED <<mig, isMigrating, migrationResult, selectedArnsData>>
       ELSE IF FindSelected = 0
       THEN /\ error' = SelectedNotFound
            /\ isMigrating' = FALSE
            /\ migrationResult' = <<>>
            /\ UNCHANGED <<mig, selectedArnsData>>
       ELSE LET data == arnsNames[FindSelected]
            IN  MigrationAwaited(FreeSlot,
                                 MigrateToArns(data.processId,
                                               UndernameOrAt(data.undername),
                                               arweaveUrl, walletPresent),
                                 Null, <<>>, data)
    /\ UNCHANGED <<envVars, conn, look, walletConnected, walletAddress, isLoading,
                   arnsNames, selectedArns, arweaveUrl, isLoadingArns>>

\* The contract answers the update of a migrateToArns call of the page.
PageUpdateSettles(s) ==
    /\ mig[s].pc = "Submitting"
    /\ \E outcome \in PageUpdateOutcomes :
          MigrationAwaited(s, MigrateUpdated(mig[s], outcome), error, migrationResult,
                           selectedArnsData[s])
    /\ UNCHANGED <<envVars, conn, look, walletConnected, walletAddress, isLoading,
                   arnsNames, selectedArns, arweaveUrl, isLoadingArns>>

\* The registry answers the re-fetch of a migrateToArns call of the page.
PageRegistrySettles(s) ==
    /\ mig[s].pc = "Resolving"
    /\ \E outcome \in PageFetchOutcomes :
          MigrationAwaited(s, MigrateResolved(mig[s], outcome), error, migrationResult,
                           selectedArnsData[s])
    /\ UNCHANGED <<envVars, conn, look, walletConnected, walletAddress, isLoading,
                   arnsNames, selectedArns, arweaveUrl, isLoadingArns>>

Next ==
    \/ WalletInjected
    \/ HandleConnectWallet
    \/ PageConnectSettles
    \/ PageAddressSettles
    \/ HandleFetchArnsNames
    \/ PageRecordsSettle
    \/ PageInfoSettles
    \/ SelectArns
    \/ SetArweaveUrl
    \/ HandleMigration
    \/ \E s \in Slots : PageUpdateSettles(s) \/ PageRegistrySettles(s)

Spec == Init /\ [][Next]_vars

\* ================================================================== claims
Range(seq) == {seq[k] : k \in 1..Len(seq)}
Pending == {s \in Slots : mig[s].pc # "Idle"}

\* u is https://<host>.arweave.net/<segment>, host and segment non-empty runs
\* of [a-zA-Z0-9_-], with nothing before or after.
FullPattern(u) ==
    \E i \in 1..Len(u) :
        LET j == Len(u) - Len(Https) - i - Len(DotArweaveNetSlash)
        IN  /\ j >= 1
            /\ SubSeq(u, 1, Len(Https)) = Https
            /\ AllIdChars(u, Len(Https) + 1, Len(Https) + i)
            /\ SubSeq(u, Len(Https) + i + 1, Len(u) - j) = DotArweaveNetSlash
            /\ AllIdChars(u, Len(u) - j + 1, Len(u))

\* ------------------------------------------------------------------------
\* C1: when the registry fetch succeeded, getArnsNames returns exactly the
\* entries of the snapshot whose contract reported the queried address as
\* owner: every entry has been queried, an entry whose query threw or whose
\* owner differs is absent, and no per-entry failure makes the lookup fail.
C1_OwnedIndices ==
    {k \in 1..Len(look.arnsRecords) : look.owners[k] = look.walletAddress}
C1_ListOwnedNamesExact ==
    look.fetched =>
        /\ look.pc # "Failed"
        /\ look.pc = "Done" =>
              /\ Len(look.owners) = Len(look.arnsRecords)
              /\ {<<e.name, e.processId>> : e \in Range(look.userArnsNames)}
                    = {<<look.arnsRecords[k].name, look.arnsRecords[k].processId>> :
                          k \in C1_OwnedIndices}
              /\ Len(look.userArnsNames) = Cardinality(C1_OwnedIndices)
\* The example of the specification: owners X, Y and a throw, queried with X.
C1_Witness ==
    /\ look.pc = "Done"
    /\ look.fetched
    /\ look.walletAddress = "X"
    /\ look.owners = <<"X", "Y", Throws>>
    /\ Len(look.userArnsNames) = 1

\* ------------------------------------------------------------------------
\* C2: an invocation of migrateToArns in which a step failed ends in Failed:
\* it raises an error and produces no result value.
C2_FailedStepEndsInFailed ==
    \A s \in Slots :
        mig[s].caught # "" =>
            /\ mig[s].pc = "Failed"
            /\ mig[s].thrown # ""
            /\ mig[s].value = NoValue

\* ------------------------------------------------------------------------
\* C3: for a Content URL that the page's pattern accepts, the transactionId
\* passed to setUndernameRecord is a valid 43-character Arweave id (otherwise
\* the invocation failed before any update was submitted).
C3_SubmittedIdIsValid ==
    \A s \in Slots :
        \A k \in 1..Len(mig[s].updates) :
            FullPattern(mig[s].arweaveUrl) =>
                isValidArweaveId(mig[s].updates[k].transactionId)

\* ------------------------------------------------------------------------
\* C4: an invocation in which no step failed returns https://<name>.ar.io for
\* the undername "@" or the empty undername and https://<undername>_<name>.ar.io
\* otherwise, <name> being an entry of the fetched registry with the updated
\* process id, together with the reported update id, or "pending" if none
\* was reported.
C4_Succeeded(s) == mig[s].pc = "Done" /\ mig[s].caught = ""
C4_ResultOfSuccess ==
    \A s \in Slots :
        C4_Succeeded(s) =>
            /\ \E k \in 1..Len(mig[s].arnsRecords) :
                  /\ mig[s].arnsRecords[k].processId = mig[s].processId
                  /\ mig[s].value.arnsUrl =
                        IF mig[s].undername \in {At, <<>>}
                        THEN Https \o mig[s].arnsRecords[k].name \o DotArIo
                        ELSE Https \o mig[s].undername \o <<"_">>
                                   \o mig[s].arnsRecords[k].name \o DotArIo
            /\ mig[s].value.transactionId =
                  IF mig[s].resultId = "" THEN "pending" ELSE mig[s].resultId
\* A success with the empty undername and no reported id.
C4_Witness ==
    \E s \in Slots :
        /\ C4_Succeeded(s)
        /\ mig[s].undername = <<>>
        /\ mig[s].value = [arnsUrl |-> Https \o Bar \o DotArIo,
                            transactionId |-> "pending"]

\* ------------------------------------------------------------------------
\* C5: an invocation is one forward pass over Validating, Submitting,
\* Resolving, Done | Failed: no stage is entered twice or after a later one,
\* the update is issued at most once and only after validation succeeded, the
\* registry is re-fetched at most once and only after the update succeeded, a
\* settled invocation is either fulfilled or rejected, and a pending
\* invocation settles once its external calls return.
C5_Rank(pc) ==
    CASE pc = "Idle" -> 0
      [] pc = "Validating" -> 1
      [] pc = "Submitting" -> 2
      [] pc = "Resolving" -> 3
      [] pc \in Settled -> 4
C5_Forward(f) ==
    /\ f.pc = (IF f.stages = <<>> THEN "Idle" ELSE f.stages[Len(f.stages)])
    /\ \A k \in 1..Len(f.stages) :
          IF k = 1 THEN f.stages[k] = "Validating"
          ELSE C5_Rank(f.stages[k - 1]) < C5_Rank(f.stages[k])
    /\ Len(f.updates) <= 1
    /\ f.updates # <<>> =>
          /\ Len(f.stages) >= 2 /\ f.stages[2] = "Submitting"
          /\ f.transactionId # <<>>
          /\ f.updates[1].transactionId = f.transactionId
    /\ f.fetches <= 1
    /\ f.fetches = 1 <=> (\E k \in 1..Len(f.stages) : f.stages[k] = "Resolving")
    /\ f.fetches = 1 => Len(f.updates) = 1
    /\ (f.pc = "Done" /\ f.caught = "") =>
          f.stages = <<"Validating", "Submitting", "Resolving", "Done">>
    /\ f.pc = "Done" => f.thrown = "" /\ f.value # NoValue
    /\ f.pc = "Failed" => f.thrown # "" /\ f.value = NoValue
C5_StepForward ==
    \A s \in Slots :
        \/ mig'[s] = mig[s]
        \/ mig[s].pc \in Settled /\ mig'[s] = IdleMig
        \/ /\ C5_Rank(mig[s].pc) < C5_Rank(mig'[s].pc)
           /\ mig[s].pc # "Idle" =>
                 /\ Len(mig'[s].stages) = Len(mig[s].stages) + 1
                 /\ SubSeq(mig'[s].stages, 1, Len(mig[s].stages)) = mig[s].stages
C5_LinearPass ==
    /\ [][C5_StepForward]_vars
    /\ [](\A s \in Slots : C5_Forward(mig[s]))
    /\ \A s \in Slots :
          (mig[s].pc \in {"Submitting", "Resolving"}) ~> (mig[s].pc \in Settled)
C5_Witness ==
    \E s \in Slots :
        /\ mig[s].stages = <<"Validating", "Submitting", "Resolving", "Done">>
        /\ Len(mig[s].updates) = 1
        /\ mig[s].fetches = 1

\* ------------------------------------------------------------------------
\* C6: getArnsNames fails, with the "Failed to fetch ARNS names" error, if
\* and only if the initial registry fetch failed.
C6_FailsIffFetchFails ==
    look.pc \in Settled =>
        ((look.pc = "Failed" /\ look.thrown = FetchNamesFailed) <=> ~look.fetched)

\* ------------------------------------------------------------------------
\* C7: when the wallet provider is absent at the Submitting step, the
\* invocation fails with the wallet error and no update is submitted.
C7_AbsentWalletFails ==
    \A s \in Slots :
        mig[s].caught = WalletNotFound =>
            /\ mig[s].pc = "Failed"
            /\ mig[s].thrown = "Migration failed: ArConnect wallet not found"
            /\ mig[s].updates = <<>>

\* ------------------------------------------------------------------------
\* C8: in the page at most one migrateToArns invocation is pending at any
\* time, and isMigrating is true exactly while one is pending.
C8_AtMostOneInFlight ==
    /\ Cardinality(Pending) <= 1
    /\ isMigrating <=> Pending # {}
\* An invocation is pending while the form is filled in, so that only
\* isMigrating keeps the button disabled.
C8_Witness ==
    /\ \E s \in Slots : mig[s].pc = "Resolving"
    /\ isMigrating
    /\ FormShown /\ selectedArns # <<>> /\ arweaveUrl # <<>>

\* ------------------------------------------------------------------------
\* C9: a click on "Migrate to ARNS" calls migrateToArns only for a URL of the
\* form https://<host>.arweave.net/<segment> (host and segment non-empty runs
\* of [a-zA-Z0-9_-], nothing before or after) and a selected name that is
\* listed, with that entry's process id; for any other URL the click sets
\* the URL error and changes no call frame, and for a name that is not listed
\* it sets an error and changes no call frame.
C9_Listed == \E k \in 1..Len(arnsNames) : arnsNames[k].name = selectedArns
\* The step is a click on "Migrate to ARNS".
C9_Click ==
    /\ ~isMigrating
    /\ UNCHANGED <<arweaveUrl, selectedArns, arnsNames, conn, look>>
    /\ HandleMigration
C9_GuardedInvocation ==
    [][ /\ \A s \in Slots :
              (mig[s].pc = "Idle" /\ mig'[s].pc # "Idle") =>
                  /\ FullPattern(arweaveUrl)
                  /\ mig'[s].arweaveUrl = arweaveUrl
                  /\ \E k \in 1..Len(arnsNames) :
                        /\ arnsNames[k].name = selectedArns
                        /\ arnsNames[k].processId = mig'[s].processId
        /\ (C9_Click /\ ~FullPattern(arweaveUrl)) =>
              /\ error' = EnterValidUrl
              /\ UNCHANGED <<libVars, isMigrating>>
        /\ (C9_Click /\ ~C9_Listed) =>
              /\ error' \in {EnterValidUrl, SelectedNotFound}
              /\ UNCHANGED <<libVars, isMigrating>> ]_vars
\* The click has rejected one of the three malformed URLs.
C9_Witness ==
    /\ error = EnterValidUrl
    /\ arweaveUrl \in {WrongSchemeUrl, EmptySegmentUrl, PartialMatchUrl}
    /\ selectedArns # <<>>
    /\ Pending = {}

\* ------------------------------------------------------------------------
\* C10: connectWallet raises the wallet-not-found error when no provider is
\* present and the generic connection failure when connect rejects, two
\* different errors; it returns an address only when it succeeds.
C10_ConnectErrorsDistinct ==
    /\ (conn.pc = "Failed" /\ conn.caught = WalletNotFoundInstall) =>
           conn.thrown = WalletNotFoundInstall
    /\ (conn.pc = "Failed" /\ conn.caught = ConnectRejected) =>
           conn.thrown = ConnectFailed
    /\ conn.pc = "Failed" => conn.address = ""

\* ------------------------------------------------------------------------
\* C11: whatever the registry holds, a successful migration started by
\* handleMigration displays the URL built from the name that was selected
\* when it started: the name the Resolving step recovers by scanning the
\* registry for the first entry with the updated contract id is that name,
\* also when several names share the contract id or the registry changed
\* since the names were listed.
\* The step in which the call in slot s resolves successfully and its URL is
\* displayed.
C11_Resolves(s) ==
    /\ mig[s].pc = "Resolving"
    /\ mig'[s].pc = "Idle"
    /\ \E outcome \in PageFetchOutcomes :
          LET f == MigrateResolved(mig[s], outcome)
          IN  f.pc = "Done" /\ f.caught = "" /\ migrationResult' = f.value.arnsUrl
C11_DisplaysSelectedName ==
    [][ \A s \in Slots :
          C11_Resolves(s) =>
              migrationResult' = ArnsUrl(UndernameOrAt(selectedArnsData[s].undername),
                                         selectedArnsData[s].name) ]_vars

====
